---- MODULE Spec2Model ----
(***************************************************************************)
(* A model of lib/route-table.c: the local mirror of the kernel's IPv4     *)
(* routing table (route_map), its reference-counted registration, the      *)
(* decoding of rtnetlink route messages, the full resync and incremental   *)
(* update of the mirror, and the longest-prefix lookup of an egress        *)
(* interface.                                                              *)
(***************************************************************************)
EXTENDS Integers, Sequences, FiniteSets, Bags, TLC

(***************************************************************************)
(* Bounds of the model.                                                    *)
(***************************************************************************)
\* register_count is explored at most this far above and below zero.
MaxRegs == 2
\* Most notifications one route_table_run() drains.
MaxBatch == 1
\* Most routes the kernel's table holds.
MaxKernel == 2
\* Most entries route_map holds in the lookup specification.
MaxRoutes == 3
\* Most notifications pending at once in the delivery-order specification.
MaxOrder == 2

(***************************************************************************)
(* Constants of the program and of <linux/rtnetlink.h>.                    *)
(***************************************************************************)
\* Width of uint32_t (rta_dst, ip, mask) and of unsigned int (register_count).
W == 32
AF_INET == 2
AF_INET6 == 10
RT_SCOPE_UNIVERSE == 0
RT_SCOPE_LINK == 253
RT_SCOPE_NOWHERE == 255
RTN_UNSPEC == 0
RTN_UNICAST == 1
RTN_LOCAL == 2
RTN_BROADCAST == 3
RTN_BLACKHOLE == 6
RTM_NEWROUTE == 24
RTM_DELROUTE == 25

(***************************************************************************)
(* 32-bit words (uint32_t, unsigned int) as their W/8 bytes, the most      *)
(* significant first.                                                      *)
(***************************************************************************)
\* The word whose bytes are a (most significant), b, c, d.
U32(a, b, c, d) == <<a, b, c, d>>

Zero32 == U32(0, 0, 0, 0)
AllOnes == U32(255, 255, 255, 255)

\* x << k in uint32_t arithmetic, for 0 <= k < W: bits shifted out are lost.
Shl(x, k) ==
    LET q == k \div 8
        r == k % 8
        n == W \div 8
    IN  [i \in 1..n |->
           (IF i + q <= n THEN (x[i + q] * (2 ^ r)) % 256 ELSE 0)
           + (IF i + q + 1 <= n THEN x[i + q + 1] \div (2 ^ (8 - r)) ELSE 0)]

\* x >> k in uint32_t arithmetic, for 0 <= k < W.
Shr(x, k) ==
    LET q == k \div 8
        r == k % 8
    IN  [i \in 1..(W \div 8) |->
           (IF i - q >= 1 THEN x[i - q] \div (2 ^ r) ELSE 0)
           + (IF i - q - 1 >= 1 THEN (x[i - q - 1] * (2 ^ (8 - r))) % 256 ELSE 0)]

\* a & b on bytes, bit by bit.
RECURSIVE ByteAnd(_, _, _)
ByteAnd(a, b, bits) ==
    IF bits = 0
    THEN 0
    ELSE (a % 2) * (b % 2) + 2 * ByteAnd(a \div 2, b \div 2, bits - 1)

\* x & y.
BitAnd(x, y) == [i \in 1..(W \div 8) |-> ByteAnd(x[i], y[i], 8)]

\* x + 1 and x - 1 in unsigned arithmetic of W bits: the carry (borrow) runs
\* from the least significant byte and is lost past the most significant one.
RECURSIVE IncFrom(_, _)
IncFrom(x, i) ==
    IF i = 0
    THEN x
    ELSE IF x[i] = 255
    THEN IncFrom([x EXCEPT ![i] = 0], i - 1)
    ELSE [x EXCEPT ![i] = x[i] + 1]
Inc(x) == IncFrom(x, W \div 8)

RECURSIVE DecFrom(_, _)
DecFrom(x, i) ==
    IF i = 0
    THEN x
    ELSE IF x[i] = 0
    THEN DecFrom([x EXCEPT ![i] = 255], i - 1)
    ELSE [x EXCEPT ![i] = x[i] - 1]
Dec(x) == DecFrom(x, W \div 8)

\* ntohl() on a little-endian host: the four bytes in reverse order.
ntohl(x) == [i \in 1..(W \div 8) |-> x[(W \div 8) + 1 - i]]
htonl(x) == ntohl(x)

\* The values a build can give 0xffffffff << 32 (a shift by the width of the
\* type is undefined): the shift count taken modulo 32, or all bits shifted out.
ShiftByWidth == {AllOnes, Zero32}

(***************************************************************************)
(* State.                                                                  *)
(***************************************************************************)
VARIABLES
    register_count, \* static unsigned int register_count (a W-bit word)
    rtn,            \* static struct rtnetlink *rtn: NULL or the subscription
    route_map,      \* static struct hmap route_map: the bag of the nodes' route_data
    kernel,         \* the kernel's routing table, in the order a dump returns it
    sock_ok,        \* whether nl_sock_create(NETLINK_ROUTE) succeeds at present
    balance,        \* history: register() calls minus unregister() calls so far
    last            \* history: the last operation, its inputs and its results

vars == <<register_count, rtn, route_map, kernel, sock_ok, balance, last>>

\* A null pointer (struct rtnetlink *, struct route_node *, route_table_msg *).
NULL == [ptr |-> "NULL"]
\* The subscription rtnetlink_create() returns.
Subscribed == [ptr |-> "rtnetlink"]
\* The out-of-band "notifications were lost" item of a notification socket.
LOST == [lost |-> TRUE]

(***************************************************************************)
(* struct route_data, struct route_table_msg and raw rtnetlink messages.   *)
(***************************************************************************)
route_data(len, dst, oif) == [rtm_dst_len |-> len, rta_dst |-> dst, rta_oif |-> oif]

route_table_msg(relevant, type, rd) ==
    [relevant |-> relevant, nlmsg_type |-> type, rd |-> rd]

\* A zero-filled struct route_table_msg (static storage, memset).
ZeroMsg == route_table_msg(FALSE, 0, route_data(0, Zero32, 0))

\* A raw message: struct nlmsghdr, struct rtmsg and the attributes present.
\* RTA_DST is a be32 as the host reads it from memory, RTA_OIF a u32.
Buf(type, family, scope, rtype, len, present, dst, oif) ==
    [nlmsg_type |-> type, rtm_family |-> family, rtm_scope |-> scope,
     rtm_type |-> rtype, rtm_dst_len |-> len, present |-> present,
     RTA_DST |-> dst, RTA_OIF |-> oif]

(***************************************************************************)
(* route_table_parse                                                       *)
(***************************************************************************)
\* The attribute policy: RTA_DST optional, RTA_OIF mandatory.
nl_policy_parse(buf) == "RTA_OIF" \in buf.present

\* route_table_parse with || for && in the test of rtm_type.
route_table_parse_TypeOr(buf, change) ==
    IF nl_policy_parse(buf)
    THEN IF buf.rtm_family # AF_INET
         THEN [parsed |-> FALSE, change |-> change]
         ELSE [parsed |-> TRUE,
               change |->
                 route_table_msg(
                   ~(buf.rtm_scope = RT_SCOPE_NOWHERE)
                     /\ ~(buf.rtm_type # RTN_UNICAST \/ buf.rtm_type # RTN_LOCAL),
                   buf.nlmsg_type,
                   route_data(buf.rtm_dst_len,
                              IF "RTA_DST" \in buf.present
                              THEN ntohl(buf.RTA_DST) ELSE Zero32,
                              buf.RTA_OIF))]
    ELSE [parsed |-> FALSE, change |-> change]

\* route_table_parse with RTA_OIF optional in the policy: a missing RTA_OIF
\* reads as 0.
route_table_parse_OifOptional(buf, change) ==
    IF buf.rtm_family # AF_INET
    THEN [parsed |-> FALSE, change |-> change]
    ELSE [parsed |-> TRUE,
          change |->
            route_table_msg(
              ~(buf.rtm_scope = RT_SCOPE_NOWHERE)
                /\ ~(buf.rtm_type # RTN_UNICAST /\ buf.rtm_type # RTN_LOCAL),
              buf.nlmsg_type,
              route_data(buf.rtm_dst_len,
                         IF "RTA_DST" \in buf.present
                         THEN ntohl(buf.RTA_DST) ELSE Zero32,
                         IF "RTA_OIF" \in buf.present THEN buf.RTA_OIF ELSE 0))]

\* Decodes buf into *change; [parsed, change] is the return value and *change.
route_table_parse(buf, change) ==
    IF nl_policy_parse(buf)
    THEN IF buf.rtm_family # AF_INET
         THEN [parsed |-> FALSE, change |-> change]
         ELSE [parsed |-> TRUE,
               change |->
                 route_table_msg(
                   ~(buf.rtm_scope = RT_SCOPE_NOWHERE)
                     /\ ~(buf.rtm_type # RTN_UNICAST /\ buf.rtm_type # RTN_LOCAL),
                   buf.nlmsg_type,
                   route_data(buf.rtm_dst_len,
                              IF "RTA_DST" \in buf.present
                              THEN ntohl(buf.RTA_DST) ELSE Zero32,
                              buf.RTA_OIF))]
    ELSE [parsed |-> FALSE, change |-> change]

(***************************************************************************)
(* The cache: route_node_lookup, route_map_clear, route_table_change,      *)
(* route_table_reset.                                                      *)
(***************************************************************************)
\* A lookup that never finds a node.
route_node_lookup_Miss(map, rd) == NULL

\* A lookup keyed by the prefix alone: rta_oif is not compared.
route_node_lookup_ByPrefix(map, rd) ==
    LET same == {e \in BagToSet(map) :
                   e.rtm_dst_len = rd.rtm_dst_len /\ e.rta_dst = rd.rta_dst}
    IN  IF same # {} THEN CHOOSE e \in same : TRUE ELSE NULL

\* The node whose route_data equals rd on every byte, or NULL.
route_node_lookup(map, rd) == IF BagIn(rd, map) THEN rd ELSE NULL

\* A clear that removes nothing, and one that stops after the first node.
route_map_clear_Nothing(map) == map
route_map_clear_One(map) ==
    IF map = EmptyBag
    THEN map
    ELSE map (-) SetToBag({CHOOSE rd \in BagToSet(map) : TRUE})

\* Removes and frees every node.
route_map_clear(map) == EmptyBag

\* The replies of an RTM_GETROUTE dump: one RTM_NEWROUTE message per route of
\* the kernel's table.
nl_dump(table) == [i \in 1..Len(table) |-> [table[i] EXCEPT !.nlmsg_type = RTM_NEWROUTE]]

RECURSIVE route_table_change(_, _)
RECURSIVE route_table_reset(_)
RECURSIVE DumpLoop(_, _, _)

\* route_table_change without the test of change->relevant.
route_table_change_NoFilter(map, change) ==
    IF change = NULL
    THEN LET r == route_table_reset(map)
         IN  [map |-> r.map, nresets |-> r.nresets]
    ELSE IF change.nlmsg_type = RTM_NEWROUTE
    THEN IF route_node_lookup(map, change.rd) = NULL
         THEN [map |-> map (+) SetToBag({change.rd}), nresets |-> 0]
         ELSE [map |-> map, nresets |-> 0]
    ELSE IF change.nlmsg_type = RTM_DELROUTE
    THEN LET rn == route_node_lookup(map, change.rd)
         IN  IF rn # NULL
             THEN [map |-> map (-) SetToBag({rn}), nresets |-> 0]
             ELSE [map |-> map, nresets |-> 0]
    ELSE [map |-> map, nresets |-> 0]

\* route_table_change without the RTM_DELROUTE branch.
route_table_change_NoDelete(map, change) ==
    IF change = NULL
    THEN LET r == route_table_reset(map)
         IN  [map |-> r.map, nresets |-> r.nresets]
    ELSE IF ~change.relevant
    THEN [map |-> map, nresets |-> 0]
    ELSE IF change.nlmsg_type = RTM_NEWROUTE
    THEN IF route_node_lookup(map, change.rd) = NULL
         THEN [map |-> map (+) SetToBag({change.rd}), nresets |-> 0]
         ELSE [map |-> map, nresets |-> 0]
    ELSE [map |-> map, nresets |-> 0]

\* Applies *change to the cache; nresets counts the calls of route_table_reset.
route_table_change(map, change) ==
    IF change = NULL
    THEN LET r == route_table_reset(map)
         IN  [map |-> r.map, nresets |-> r.nresets]
    ELSE IF ~change.relevant
    THEN [map |-> map, nresets |-> 0]
    ELSE IF change.nlmsg_type = RTM_NEWROUTE
    THEN IF route_node_lookup(map, change.rd) = NULL
         THEN [map |-> map (+) SetToBag({change.rd}), nresets |-> 0]
         ELSE [map |-> map, nresets |-> 0]
    ELSE IF change.nlmsg_type = RTM_DELROUTE
    THEN LET rn == route_node_lookup(map, change.rd)
         IN  IF rn # NULL
             THEN [map |-> map (-) SetToBag({rn}), nresets |-> 0]
             ELSE [map |-> map, nresets |-> 0]
    ELSE [map |-> map, nresets |-> 0]

\* while (nl_dump_next(&dump, &reply)): decode the reply and apply it.
DumpLoop(map, dump, nresets) ==
    IF dump = <<>>
    THEN [map |-> map, error |-> 0, nresets |-> nresets]
    ELSE LET p == route_table_parse(Head(dump), ZeroMsg)
             c == IF p.parsed
                  THEN route_table_change(map, p.change)
                  ELSE [map |-> map, nresets |-> 0]
         IN  DumpLoop(c.map, Tail(dump), nresets + c.nresets)

\* The full resync: clear, then apply every decodable message of a dump.
route_table_reset(map) ==
    LET cleared == route_map_clear(map)
    IN  IF ~sock_ok
        THEN [map |-> cleared, error |-> 1, nresets |-> 1]
        ELSE DumpLoop(cleared, nl_dump(kernel), 1)

(***************************************************************************)
(* route_node_lookup_by_ip and route_table_get_ifindex.  nodes is the      *)
(* order in which HMAP_FOR_EACH visits route_map; shl32 is what the build  *)
(* makes of 0xffffffff << 32.                                              *)
(***************************************************************************)
\* Every order in which the nodes of the bag can be visited.
RECURSIVE Orders(_)
Orders(map) ==
    IF map = EmptyBag
    THEN {<<>>}
    ELSE UNION {{<<rd>> \o s : s \in Orders(map (-) SetToBag({rd}))} :
                rd \in BagToSet(map)}

\* A mask one bit short: the shift count taken as 33 - rtm_dst_len.
Mask_ShortByOne(rd, shl32) ==
    IF W + 1 - rd.rtm_dst_len < W THEN Shl(AllOnes, W + 1 - rd.rtm_dst_len) ELSE shl32

\* A mask shifted the other way: 0xffffffff >> (32 - rtm_dst_len).
Mask_ShiftRight(rd, shl32) ==
    IF W - rd.rtm_dst_len < W THEN Shr(AllOnes, W - rd.rtm_dst_len) ELSE shl32

\* uint32_t mask = 0xffffffff << (32 - rn->rd.rtm_dst_len);
Mask(rd, shl32) ==
    IF W - rd.rtm_dst_len < W THEN Shl(AllOnes, W - rd.rtm_dst_len) ELSE shl32

RECURSIVE LookupLoop(_, _, _, _, _)
LookupLoop(nodes, ip, shl32, dst_len, rn_ret) ==
    IF nodes = <<>>
    THEN rn_ret
    ELSE LET rn == Head(nodes)
             mask == Mask(rn, shl32)
         IN  IF rn.rta_dst = Zero32 /\ rn.rtm_dst_len = 0
             THEN LookupLoop(Tail(nodes), ip, shl32, dst_len, rn_ret)
             ELSE IF rn.rtm_dst_len > dst_len
                     /\ BitAnd(ip, mask) = BitAnd(rn.rta_dst, mask)
             THEN LookupLoop(Tail(nodes), ip, shl32, rn.rtm_dst_len, rn)
             ELSE LookupLoop(Tail(nodes), ip, shl32, dst_len, rn_ret)

route_node_lookup_by_ip(nodes, ip, shl32) == LookupLoop(nodes, ip, shl32, -1, NULL)

\* The first default route HMAP_FOR_EACH meets, or NULL.
RECURSIVE DefaultLoop(_)
DefaultLoop(nodes) ==
    IF nodes = <<>>
    THEN NULL
    ELSE IF Head(nodes).rta_dst = Zero32 /\ Head(nodes).rtm_dst_len = 0
    THEN Head(nodes)
    ELSE DefaultLoop(Tail(nodes))

\* [ret, ifindex]: the return value and *ifindex.  ip_ is in network byte order.
route_table_get_ifindex(nodes, ip_, shl32) ==
    LET ip == ntohl(ip_)
        rn == route_node_lookup_by_ip(nodes, ip, shl32)
    IN  IF rn # NULL
        THEN [ret |-> TRUE, ifindex |-> rn.rta_oif]
        ELSE LET d == DefaultLoop(nodes)
             IN  IF d # NULL
                 THEN [ret |-> TRUE, ifindex |-> d.rta_oif]
                 ELSE [ret |-> FALSE, ifindex |-> 0]

(***************************************************************************)
(* Inputs: routes, raw messages and addresses.                             *)
(***************************************************************************)
Net10 == U32(10, 0, 0, 0)
Net10_1 == U32(10, 1, 0, 0)
Host10_1_2_3 == U32(10, 1, 2, 3)
Host10_2_3_4 == U32(10, 2, 3, 4)
Host192 == U32(192, 168, 1, 1)
Host11 == U32(11, 1, 2, 3)
Host10_16 == U32(10, 16, 0, 1)

\* An RTM_NEWROUTE or RTM_DELROUTE message of a unicast route with both attributes.
Unicast(type, len, dst, oif) ==
    Buf(type, AF_INET, RT_SCOPE_UNIVERSE, RTN_UNICAST, len,
        {"RTA_DST", "RTA_OIF"}, htonl(dst), oif)

\* A default route as the kernel sends it: no RTA_DST attribute.
DefaultRoute(type, oif) ==
    Buf(type, AF_INET, RT_SCOPE_UNIVERSE, RTN_UNICAST, 0, {"RTA_OIF"}, Zero32, oif)

\* Messages that decode but are not relevant.
ScopeNowhere(type, len, dst, oif) ==
    Buf(type, AF_INET, RT_SCOPE_NOWHERE, RTN_UNICAST, len,
        {"RTA_DST", "RTA_OIF"}, htonl(dst), oif)
Broadcast(type, len, dst, oif) ==
    Buf(type, AF_INET, RT_SCOPE_LINK, RTN_BROADCAST, len,
        {"RTA_DST", "RTA_OIF"}, htonl(dst), oif)

\* A message that does not decode: a unicast route whose next hops are in
\* RTA_MULTIPATH, so that it has no RTA_OIF attribute.
Multipath(type, len, dst) ==
    Buf(type, AF_INET, RT_SCOPE_UNIVERSE, RTN_UNICAST, len, {"RTA_DST"}, htonl(dst), 0)

\* The routes the kernel's table can hold.
KernelRoutes ==
    { Unicast(RTM_NEWROUTE, 8, Net10, 1),
      DefaultRoute(RTM_NEWROUTE, 3),
      ScopeNowhere(RTM_NEWROUTE, 8, Net10, 2),
      Multipath(RTM_NEWROUTE, 8, Net10) }

\* What a notification socket can deliver: raw messages and the lost signal.
NotifyItems ==
    { Unicast(RTM_NEWROUTE, 8, Net10, 1),
      Unicast(RTM_DELROUTE, 8, Net10, 1),
      Unicast(RTM_DELROUTE, 8, Net10, 2),
      ScopeNowhere(RTM_NEWROUTE, 8, Net10, 2),
      Broadcast(RTM_DELROUTE, 8, Net10, 1),
      Multipath(RTM_NEWROUTE, 8, Net10),
      LOST }

\* The addresses resolved.
Addrs == {Host10_1_2_3, Host192}

\* Every sequence over S of length at most n.
RECURSIVE SeqsUpTo(_, _)
SeqsUpTo(S, n) ==
    IF n = 0
    THEN {<<>>}
    ELSE LET shorter == SeqsUpTo(S, n - 1)
         IN  shorter \cup {Append(b, x) : b \in shorter, x \in S}

\* n increments, and n decrements, of a zero register_count.
RECURSIVE Up(_)
Up(n) == IF n = 0 THEN Zero32 ELSE Inc(Up(n - 1))
RECURSIVE Down(_)
Down(n) == IF n = 0 THEN Zero32 ELSE Dec(Down(n - 1))

(***************************************************************************)
(* The history variable: the last operation.                               *)
(***************************************************************************)
NoItem == [none |-> TRUE]

\* op: the operation.  For "run": nitems, the number of notifications pending;
\* item, the last one received; change, what it decoded to (NULL for the lost
\* signal); ret, whether it decoded; before, route_map before it was applied;
\* nresets, the number of resyncs applying it made (for "register": the
\* resyncs of the setup); after_reset, whether route_map, before it was
\* applied, was as a resync had just left it, with the kernel's table and the
\* sockets as they still are.  For "resolve": ip, ret and ifindex.
Last(op, nitems, item, change, before, nresets, after_reset, ip, ret, ifindex) ==
    [op |-> op, nitems |-> nitems, item |-> item, change |-> change,
     before |-> before, nresets |-> nresets, after_reset |-> after_reset,
     ip |-> ip, ret |-> ret, ifindex |-> ifindex]

\* The last operation ended with a resync and nothing has happened since.
ResetDone ==
    \/ last.op = "run" /\ last.item = LOST
    \/ last.op = "register" /\ last.nresets > 0

\* An operation without notification or address.
Did(op, before, nresets) ==
    Last(op, 0, NoItem, NULL, before, nresets, FALSE, Zero32, FALSE, 0)

(***************************************************************************)
(* Initial state: static storage before the first call.                    *)
(***************************************************************************)
Init ==
    /\ register_count = Zero32
    /\ rtn = NULL
    /\ route_map = EmptyBag
    /\ kernel = <<>>
    /\ sock_ok = TRUE
    /\ balance = 0
    /\ last = Did("init", EmptyBag, 0)

(***************************************************************************)
(* route_table_register                                                    *)
(***************************************************************************)
\* A register that resyncs on every call.
route_table_register_Resync ==
    /\ register_count # Up(MaxRegs)
    /\ rtn' = Subscribed
    /\ LET r == route_table_reset(IF register_count = Zero32 THEN EmptyBag ELSE route_map)
       IN  /\ route_map' = r.map
           /\ last' = Did("register", route_map, r.nresets)
    /\ register_count' = Inc(register_count)
    /\ balance' = balance + 1
    /\ UNCHANGED <<kernel, sock_ok>>

route_table_register ==
    /\ register_count # Up(MaxRegs)
    /\ IF register_count = Zero32
       THEN /\ rtn = NULL                       \* assert(!rtn)
            /\ rtn' = Subscribed
            /\ LET r == route_table_reset(EmptyBag)
               IN  /\ route_map' = r.map
                   /\ last' = Did("register", route_map, r.nresets)
       ELSE /\ UNCHANGED <<rtn, route_map>>
            /\ last' = Did("register", route_map, 0)
    /\ register_count' = Inc(register_count)
    /\ balance' = balance + 1
    /\ UNCHANGED <<kernel, sock_ok>>

(***************************************************************************)
(* route_table_unregister                                                  *)
(***************************************************************************)
\* An unregister that tears down whatever the count.
route_table_unregister_Always ==
    /\ register_count # Down(MaxRegs)
    /\ register_count' = Dec(register_count)
    /\ rtn' = NULL
    /\ route_map' = route_map_clear(route_map)
    /\ balance' = balance - 1
    /\ last' = Did("unregister", route_map, 0)
    /\ UNCHANGED <<kernel, sock_ok>>

\* A teardown that drops the subscription and keeps the nodes.
route_table_unregister_NoClear ==
    /\ register_count # Down(MaxRegs)
    /\ register_count' = Dec(register_count)
    /\ IF Dec(register_count) = Zero32
       THEN /\ rtn' = NULL
            /\ UNCHANGED route_map
       ELSE UNCHANGED <<rtn, route_map>>
    /\ balance' = balance - 1
    /\ last' = Did("unregister", route_map, 0)
    /\ UNCHANGED <<kernel, sock_ok>>

route_table_unregister ==
    /\ register_count # Down(MaxRegs)
    /\ register_count' = Dec(register_count)
    /\ IF Dec(register_count) = Zero32
       THEN /\ rtn' = NULL
            /\ route_map' = route_map_clear(route_map)
       ELSE UNCHANGED <<rtn, route_map>>
    /\ balance' = balance - 1
    /\ last' = Did("unregister", route_map, 0)
    /\ UNCHANGED <<kernel, sock_ok>>

(***************************************************************************)
(* route_table_run and route_table_wait                                    *)
(***************************************************************************)
\* rtnetlink_notifier_run: receives every pending item in order; a message is
\* decoded into the notifier's buffer and, if decoded, reported; a lost
\* signal is reported as a NULL change.
RECURSIVE rtnetlink_notifier_run(_, _)
rtnetlink_notifier_run(st, batch) ==
    IF batch = <<>>
    THEN st
    ELSE LET it == Head(batch)
             p == IF it = LOST
                  THEN [parsed |-> FALSE, change |-> NULL]
                  ELSE route_table_parse(it, st.rtmsg)
             c == IF it = LOST
                  THEN route_table_change(st.map, NULL)
                  ELSE IF p.parsed
                  THEN route_table_change(st.map, p.change)
                  ELSE [map |-> st.map, nresets |-> 0]
         IN  rtnetlink_notifier_run(
                 [map |-> c.map, rtmsg |-> IF it = LOST THEN st.rtmsg ELSE p.change,
                  item |-> it, change |-> p.change, before |-> st.map,
                  ret |-> p.parsed, nresets |-> c.nresets,
                  after_reset |-> st.fresh, fresh |-> (it = LOST)],
                 Tail(batch))

\* route_table_run without the test of rtn.
route_table_run_Unchecked(batch) ==
    /\ LET st == rtnetlink_notifier_run(
                      [map |-> route_map, rtmsg |-> ZeroMsg, item |-> NoItem,
                       change |-> NULL, before |-> route_map, ret |-> FALSE,
                       nresets |-> 0, after_reset |-> FALSE, fresh |-> ResetDone],
                      batch)
       IN  /\ route_map' = st.map
           /\ last' = Last("run", Len(batch), st.item, st.change, st.before,
                           st.nresets, st.after_reset, Zero32, st.ret, 0)
    /\ UNCHANGED <<register_count, rtn, kernel, sock_ok, balance>>

route_table_run(batch) ==
    /\ IF rtn # NULL
       THEN LET st == rtnetlink_notifier_run(
                          [map |-> route_map, rtmsg |-> ZeroMsg, item |-> NoItem,
                           change |-> NULL, before |-> route_map, ret |-> FALSE,
                           nresets |-> 0, after_reset |-> FALSE, fresh |-> ResetDone],
                          batch)
            IN  /\ route_map' = st.map
                /\ last' = Last("run", Len(batch), st.item, st.change, st.before,
                                st.nresets, st.after_reset, Zero32, st.ret, 0)
       ELSE /\ UNCHANGED route_map
            /\ last' = Last("run", Len(batch), NoItem, NULL, route_map, 0, FALSE,
                            Zero32, FALSE, 0)
    /\ UNCHANGED <<register_count, rtn, kernel, sock_ok, balance>>

route_table_wait ==
    /\ last' = Did("wait", route_map, 0)
    /\ UNCHANGED <<register_count, rtn, route_map, kernel, sock_ok, balance>>

(***************************************************************************)
(* route_table_get_ifindex as an operation                                 *)
(***************************************************************************)
Resolve(ip) ==
    /\ \E nodes \in Orders(route_map), shl32 \in ShiftByWidth :
         LET r == route_table_get_ifindex(nodes, htonl(ip), shl32)
         IN  last' = Last("resolve", 0, NoItem, NULL, route_map, 0, FALSE, ip, r.ret,
                          r.ifindex)
    /\ UNCHANGED <<register_count, rtn, route_map, kernel, sock_ok, balance>>

(***************************************************************************)
(* The environment: the kernel's table and the availability of sockets.    *)
(***************************************************************************)
KernelAdd(m) ==
    /\ Len(kernel) < MaxKernel
    /\ \A i \in 1..Len(kernel) : kernel[i] # m
    /\ kernel' = Append(kernel, m)
    /\ last' = Did("kernel", EmptyBag, 0)
    /\ UNCHANGED <<register_count, rtn, route_map, sock_ok, balance>>

KernelDel(i) ==
    /\ i \in 1..Len(kernel)
    /\ kernel' = [j \in 1..(Len(kernel) - 1) |-> IF j < i THEN kernel[j] ELSE kernel[j + 1]]
    /\ last' = Did("kernel", EmptyBag, 0)
    /\ UNCHANGED <<register_count, rtn, route_map, sock_ok, balance>>

SockToggle ==
    /\ sock_ok' = ~sock_ok
    /\ last' = Did("kernel", EmptyBag, 0)
    /\ UNCHANGED <<register_count, rtn, route_map, kernel, balance>>

(***************************************************************************)
(* The specification of the subsystem.                                     *)
(***************************************************************************)
\* What route_table_run() can find pending.
Batches == SeqsUpTo(NotifyItems, MaxBatch)

Run == \E batch \in Batches : route_table_run(batch)
Lookup == \E ip \in Addrs : Resolve(ip)
KernelChange ==
    \/ \E m \in KernelRoutes : KernelAdd(m)
    \/ \E i \in 1..MaxKernel : KernelDel(i)

Next ==
    \/ route_table_register
    \/ route_table_unregister
    \/ Run
    \/ route_table_wait
    \/ Lookup
    \/ KernelChange
    \/ SockToggle

Spec == Init /\ [][Next]_vars

(***************************************************************************)
(* The specification of the lookup: the cache is filled by RTM_NEWROUTE    *)
(* notifications of prefixes that nest, tie and differ by interface only,  *)
(* and addresses inside and outside them are resolved.                     *)
(***************************************************************************)
LookupRoutes ==
    { Unicast(RTM_NEWROUTE, 8, Net10, 1),
      Unicast(RTM_NEWROUTE, 8, Net10, 2),
      Unicast(RTM_NEWROUTE, 12, Net10, 5),
      Unicast(RTM_NEWROUTE, 16, Net10_1, 2),
      Unicast(RTM_NEWROUTE, 32, Host10_1_2_3, 4),
      Unicast(RTM_NEWROUTE, 0, Net10, 1),
      DefaultRoute(RTM_NEWROUTE, 3),
      DefaultRoute(RTM_NEWROUTE, 1) }

LookupAddrs == {Host10_1_2_3, Host10_2_3_4, Host10_16, Host192, Host11, Net10}

Feed ==
    /\ BagCardinality(route_map) < MaxRoutes
    /\ \E m \in LookupRoutes : route_table_run(<<m>>)

LookupAny == \E ip \in LookupAddrs : Resolve(ip)

\* The first registration.
FirstRegister == register_count = Zero32 /\ route_table_register

LookupNext ==
    \/ FirstRegister
    \/ Feed
    \/ LookupAny

SpecLookup == Init /\ [][LookupNext]_vars

(***************************************************************************)
(* The specification of the delivery order: notifications queue up on the  *)
(* notification socket and one run() drains the queue.  While a queue is   *)
(* pending, last.op is "pending" and last.item is the queue.               *)
(***************************************************************************)
OrderItems ==
    { Unicast(RTM_NEWROUTE, 8, Net10, 1),
      Unicast(RTM_DELROUTE, 8, Net10, 1),
      Unicast(RTM_NEWROUTE, 8, Net10, 2),
      LOST }

OrderBatches == SeqsUpTo(OrderItems, MaxOrder)

\* Notifications arrive on the socket of the subscription.
Arrive ==
    /\ rtn # NULL
    /\ last.op # "pending"
    /\ \E batch \in OrderBatches :
         last' = Last("pending", Len(batch), batch, NULL, route_map, 0, FALSE,
                      Zero32, FALSE, 0)
    /\ UNCHANGED <<register_count, rtn, route_map, kernel, sock_ok, balance>>

\* run() drains what is pending.
Drain ==
    /\ last.op = "pending"
    /\ route_table_run(last.item)

\* The kernel's table changes while nothing is pending.
OrderKernel ==
    /\ last.op # "pending"
    /\ KernelChange

OrderNext ==
    \/ FirstRegister
    \/ Arrive
    \/ Drain
    \/ OrderKernel

SpecOrder == Init /\ [][OrderNext]_vars

(***************************************************************************)
(* The specification of the decoder: route_table_parse applied to one raw  *)
(* message, for every combination of header fields and attributes.         *)
(***************************************************************************)
ParseBufs ==
    { Buf(t, f, sc, ty, len, present, dst, oif) :
        t \in {RTM_NEWROUTE, RTM_DELROUTE},
        f \in {AF_INET, AF_INET6},
        sc \in {RT_SCOPE_UNIVERSE, RT_SCOPE_LINK, RT_SCOPE_NOWHERE},
        ty \in {RTN_UNSPEC, RTN_UNICAST, RTN_LOCAL, RTN_BROADCAST, RTN_BLACKHOLE},
        len \in {0, 8, 32},
        present \in SUBSET {"RTA_DST", "RTA_OIF"},
        dst \in {Zero32, htonl(Net10), htonl(Host10_1_2_3)},
        oif \in {1, 3} }

ParseInit ==
    /\ register_count = Zero32
    /\ rtn = NULL
    /\ route_map = EmptyBag
    /\ kernel = <<>>
    /\ sock_ok = TRUE
    /\ balance = 0
    /\ \E buf \in ParseBufs :
         last = Last("buf", 1, buf, ZeroMsg, EmptyBag, 0, FALSE, Zero32, FALSE, 0)

Decode ==
    /\ last.op = "buf"
    /\ LET p == route_table_parse(last.item, last.change)
       IN  last' = [last EXCEPT !.op = "parse", !.ret = p.parsed, !.change = p.change]
    /\ UNCHANGED <<register_count, rtn, route_map, kernel, sock_ok, balance>>

ParseNext == Decode

SpecParse == ParseInit /\ [][ParseNext]_vars

(***************************************************************************)
(* Properties of the lookup (checked under SpecLookup).                    *)
(***************************************************************************)
\* Bit i of a word, bit 1 the most significant.
Bit(x, i) == (x[((i - 1) \div 8) + 1] \div (2 ^ (7 - ((i - 1) % 8)))) % 2

\* rd agrees with ip on its leading rtm_dst_len bits.
PrefixMatch(rd, ip) == \A i \in 1..rd.rtm_dst_len : Bit(ip, i) = Bit(rd.rta_dst, i)

IsDefault(rd) == rd.rtm_dst_len = 0 /\ rd.rta_dst = Zero32

\* The non-default entries of the cache that match ip.
Matching(map, ip) == {rd \in BagToSet(map) : ~IsDefault(rd) /\ PrefixMatch(rd, ip)}

\* The default routes of the cache.
Defaults(map) == {rd \in BagToSet(map) : IsDefault(rd)}

\* last is a resolve of ip against the present cache.
Resolved == last.op = "resolve"

\* C1: whenever some non-default entry matches the resolved address on its
\* leading dst_prefix_len bits, resolve succeeds and returns the interface of
\* a matching entry whose dst_prefix_len is the greatest among the matching
\* entries.
C1_LongestPrefix ==
    (Resolved /\ Matching(route_map, last.ip) # {})
    => /\ last.ret
       /\ \E rd \in Matching(route_map, last.ip) :
            /\ rd.rta_oif = last.ifindex
            /\ \A other \in Matching(route_map, last.ip) :
                 other.rtm_dst_len <= rd.rtm_dst_len

\* C1 restricted to caches whose non-default entries all have a prefix length
\* of at least 1: the part of C1 the code keeps.
C1_LongestPrefixFrom1 ==
    (\A rd \in BagToSet(route_map) : IsDefault(rd) \/ rd.rtm_dst_len >= 1)
    => C1_LongestPrefix

\* C2: when no non-default entry matches the resolved address and the cache
\* holds a default route, resolve succeeds with the interface of a default
\* route; when some non-default entry matches, an interface returned is that
\* of a matching non-default entry, not a default route's.
C2_DefaultFallback ==
    Resolved
    => /\ (Matching(route_map, last.ip) = {} /\ Defaults(route_map) # {})
          => (last.ret /\ \E d \in Defaults(route_map) : d.rta_oif = last.ifindex)
       /\ (Matching(route_map, last.ip) # {} /\ last.ret)
          => \E rd \in Matching(route_map, last.ip) : rd.rta_oif = last.ifindex

\* C2 restricted to caches whose non-default entries all have a prefix length
\* of at least 1.
C2_DefaultFallbackFrom1 ==
    (\A rd \in BagToSet(route_map) : IsDefault(rd) \/ rd.rtm_dst_len >= 1)
    => C2_DefaultFallback

\* C3: when the cache holds neither a non-default entry matching the resolved
\* address nor a default route, resolve returns false and leaves *ifindex 0.
C3_NoRoute ==
    (Resolved /\ Matching(route_map, last.ip) = {} /\ Defaults(route_map) = {})
    => (~last.ret /\ last.ifindex = 0)

\* A resolve that found no route in a cache that is not empty.
C3_Witness ==
    /\ Resolved
    /\ route_map # EmptyBag
    /\ Matching(route_map, last.ip) = {}
    /\ Defaults(route_map) = {}
    /\ ~last.ret

\* The smaller of a and b, and n kept within 0..8.
Min(a, b) == IF a < b THEN a ELSE b
Upto8(n) == IF n < 0 THEN 0 ELSE Min(n, 8)

\* The word with its len most significant bits set (all-ones shifted left by
\* 32 - len), and the word with its len least significant bits set (all-ones
\* shifted right by 32 - len), for len in 1..32.
HighBits(len) == [i \in 1..4 |-> 256 - 2 ^ (8 - Upto8(len - 8 * (i - 1)))]
LowBits(len) == [i \in 1..4 |-> 2 ^ Upto8(len - 8 * (4 - i)) - 1]

\* The entries that agree with ip under the mask of their prefix length.
CandidatesHigh(map, ip) ==
    {rd \in BagToSet(map) :
       BitAnd(ip, HighBits(rd.rtm_dst_len)) = BitAnd(rd.rta_dst, HighBits(rd.rtm_dst_len))}
CandidatesLow(map, ip) ==
    {rd \in BagToSet(map) :
       BitAnd(ip, LowBits(rd.rtm_dst_len)) = BitAnd(rd.rta_dst, LowBits(rd.rtm_dst_len))}

\* The cache holds entries of prefix length 1..32 only, so that the outcome
\* of a resolve shows whether the scan found a candidate.
ScanOnly == \A rd \in BagToSet(route_map) : rd.rtm_dst_len \in 1..W

\* C16 as stated: with mask = all-ones shifted right by 32 - prefix_len, a
\* resolve over entries of prefix length 1..32 succeeds exactly when some
\* entry agrees with the address under its mask, with the interface of such
\* an entry.
C16_MaskRight ==
    (Resolved /\ ScanOnly)
    => /\ last.ret <=> CandidatesLow(route_map, last.ip) # {}
       /\ last.ret => \E rd \in CandidatesLow(route_map, last.ip) :
                        rd.rta_oif = last.ifindex

\* C16 as amended: the same with mask = all-ones shifted left by
\* 32 - prefix_len.
C16_MaskLeft ==
    (Resolved /\ ScanOnly)
    => /\ last.ret <=> CandidatesHigh(route_map, last.ip) # {}
       /\ last.ret => \E rd \in CandidatesHigh(route_map, last.ip) :
                        rd.rta_oif = last.ifindex

\* A resolve has found, among entries of prefix length 1..32, one whose mask
\* does not end on a byte and one that is no candidate.
C16_Witness ==
    /\ Resolved
    /\ ScanOnly
    /\ last.ret
    /\ \E rd \in CandidatesHigh(route_map, last.ip) : rd.rtm_dst_len % 8 # 0
    /\ \E rd \in BagToSet(route_map) : rd \notin CandidatesHigh(route_map, last.ip)

\* The entries of prefix length 0, and those of prefix length 1..32 that
\* match ip.
ZeroLen(map) == {rd \in BagToSet(map) : rd.rtm_dst_len = 0}
Specific(map, ip) == {rd \in BagToSet(map) : rd.rtm_dst_len >= 1 /\ PrefixMatch(rd, ip)}

\* C17: when the cache holds an entry of prefix length 0 whose dst is not 0,
\* that entry counts as a default route: a resolve of an address that no
\* entry of prefix length 1..32 matches succeeds with the interface of an
\* entry of prefix length 0, and a resolve of an address that such an entry
\* matches returns the interface of one of those, not of the entry of
\* prefix length 0.
C17_ZeroLenAsDefault ==
    (Resolved /\ \E rd \in ZeroLen(route_map) : rd.rta_dst # Zero32)
    => IF Specific(route_map, last.ip) = {}
       THEN /\ last.ret
            /\ \E rd \in ZeroLen(route_map) : rd.rta_oif = last.ifindex
       ELSE /\ last.ret
            /\ \E rd \in Specific(route_map, last.ip) : rd.rta_oif = last.ifindex

\* C20: on one build, a resolve of the cache gives the same success flag and
\* the same interface in whatever order the nodes of the cache are visited.
C20_OrderIndependent ==
    Resolved
    => \A shl32 \in ShiftByWidth :
         \A n1 \in Orders(route_map), n2 \in Orders(route_map) :
            route_table_get_ifindex(n1, htonl(last.ip), shl32)
              = route_table_get_ifindex(n2, htonl(last.ip), shl32)

(***************************************************************************)
(* Properties of the registration and of the synchronization (checked      *)
(* under Spec).                                                            *)
(***************************************************************************)
\* The last operation was a run whose last notification decoded.
Applied == last.op = "run" /\ last.ret

\* The last operation was a run whose last notification was the lost signal.
LostApplied == last.op = "run" /\ last.item = LOST

\* The route_data of the relevant, decodable messages of a dump of the table.
DumpedRoutes(table) ==
    {route_table_parse(table[i], ZeroMsg).change.rd :
       i \in {j \in 1..Len(table) :
                /\ route_table_parse(table[j], ZeroMsg).parsed
                /\ route_table_parse(table[j], ZeroMsg).change.relevant}}

\* No resolve of the present cache finds a route.
NoRouteAtAll ==
    \A ip \in Addrs, nodes \in Orders(route_map), shl32 \in ShiftByWidth :
       ~route_table_get_ifindex(nodes, htonl(ip), shl32).ret

\* C4: while more register() than unregister() calls have been made the
\* subscription is present, an unregister() leaves the cache as it was and
\* run() still inserts the routes notified; the unregister() that evens the
\* calls drops the subscription and clears the cache, and from then on no
\* resolve finds a route.
C4_RefCount ==
    /\ balance >= 1 => rtn # NULL
    /\ (last.op = "unregister" /\ balance >= 1) => route_map = last.before
    /\ (Applied /\ balance >= 1 /\ last.change.relevant
          /\ last.change.nlmsg_type = RTM_NEWROUTE)
       => BagIn(last.change.rd, route_map)
    /\ balance = 0
       => /\ rtn = NULL
          /\ route_map = EmptyBag
          /\ NoRouteAtAll
          /\ Resolved => ~last.ret

\* The second of two register() calls has been undone and the cache, which is
\* not empty, is retained.
C4_Witness ==
    /\ last.op = "unregister"
    /\ balance = 1
    /\ rtn # NULL
    /\ route_map # EmptyBag

\* C5: applying the lost signal makes exactly one resync and, when the dump
\* socket can be created, leaves the cache holding exactly the route_data of
\* the relevant, decodable routes of the dump, each once.
C5_LostResync ==
    LostApplied
    => /\ last.nresets = 1
       /\ sock_ok => route_map = SetToBag(DumpedRoutes(nl_dump(kernel)))

\* A resync after the lost signal dropped an entry the kernel no longer has
\* and kept or fetched another.
C5_Witness ==
    /\ LostApplied
    /\ sock_ok
    /\ route_map # EmptyBag
    /\ \E rd \in BagToSet(last.before) : ~BagIn(rd, route_map)

\* C6: a resync made when the cache is as the previous resync left it, the
\* kernel's table and the sockets unchanged, leaves the cache as it was.
C6_ResyncIdempotent ==
    (LostApplied /\ last.after_reset)
    => /\ route_map = last.before
       /\ BagCardinality(route_map) = BagCardinality(last.before)

\* A second resync in succession, of a table with routes to cache.
C6_Witness ==
    /\ LostApplied
    /\ last.after_reset
    /\ sock_ok
    /\ route_map # EmptyBag

\* C7: a relevant RTM_NEWROUTE whose route_data is already cached leaves the
\* cache as it was, and no route_data is ever cached twice.
C7_Dedup ==
    /\ \A rd \in BagToSet(route_map) : CopiesIn(rd, route_map) = 1
    /\ (Applied /\ last.change.relevant
          /\ last.change.nlmsg_type = RTM_NEWROUTE
          /\ BagIn(last.change.rd, last.before))
       => route_map = last.before

\* A relevant RTM_NEWROUTE of a route already cached has been applied.
C7_Witness ==
    /\ Applied
    /\ last.change.relevant
    /\ last.change.nlmsg_type = RTM_NEWROUTE
    /\ BagIn(last.change.rd, last.before)

\* C8: a relevant RTM_DELROUTE whose route_data is not cached on all three
\* fields leaves the cache as it was; one whose route_data is cached removes
\* that entry and keeps every other.
C8_Delete ==
    (Applied /\ last.change.relevant /\ last.change.nlmsg_type = RTM_DELROUTE)
    => IF BagIn(last.change.rd, last.before)
       THEN /\ ~BagIn(last.change.rd, route_map)
            /\ route_map (+) SetToBag({last.change.rd}) = last.before
       ELSE route_map = last.before

\* A relevant RTM_DELROUTE that differs from a cached entry in rta_oif alone
\* has been applied.
C8_Witness ==
    /\ Applied
    /\ last.change.relevant
    /\ last.change.nlmsg_type = RTM_DELROUTE
    /\ ~BagIn(last.change.rd, last.before)
    /\ \E e \in BagToSet(last.before) :
         /\ e.rtm_dst_len = last.change.rd.rtm_dst_len
         /\ e.rta_dst = last.change.rd.rta_dst
         /\ e.rta_oif # last.change.rd.rta_oif

\* C9: a decoded notification that is not relevant leaves the cache as it
\* was, whatever its kind, and after a resync every cached entry is the
\* route_data of a relevant message of the dump.
C9_Irrelevant ==
    /\ (Applied /\ ~last.change.relevant) => route_map = last.before
    /\ (ResetDone /\ sock_ok)
       => \A rd \in BagToSet(route_map) : rd \in DumpedRoutes(nl_dump(kernel))

\* An irrelevant RTM_DELROUTE of a cached route has been applied.
C9_Witness ==
    /\ Applied
    /\ ~last.change.relevant
    /\ last.change.nlmsg_type = RTM_DELROUTE
    /\ BagIn(last.change.rd, last.before)

\* The last operation was a run whose last notification was a raw message
\* without RTA_OIF.
NoOifNotified ==
    /\ last.op = "run"
    /\ last.item # NoItem
    /\ last.item # LOST
    /\ "RTA_OIF" \notin last.item.present

\* rd is what message m of the kernel's table carries, RTA_OIF included.
CarriedBy(rd, m) ==
    /\ "RTA_OIF" \in m.present
    /\ rd.rta_oif = m.RTA_OIF
    /\ rd.rtm_dst_len = m.rtm_dst_len
    /\ rd.rta_dst = (IF "RTA_DST" \in m.present THEN ntohl(m.RTA_DST) ELSE Zero32)

\* C11: a notification without RTA_OIF does not decode and leaves the cache
\* as it was, and after a resync every cached entry is the route_data of a
\* message of the dump that carries RTA_OIF, so a message without RTA_OIF
\* adds nothing in a dump either.
C11_MissingOif ==
    /\ NoOifNotified => (~last.ret /\ route_map = last.before)
    /\ (ResetDone /\ sock_ok)
       => \A rd \in BagToSet(route_map) :
            \E i \in 1..Len(kernel) : CarriedBy(rd, kernel[i])

\* A notification without RTA_OIF, otherwise a relevant RTM_NEWROUTE of a
\* route not cached, has been received while the kernel's table holds such a
\* route too.
C11_Witness ==
    /\ NoOifNotified
    /\ last.item.nlmsg_type = RTM_NEWROUTE
    /\ last.item.rtm_type = RTN_UNICAST
    /\ route_map # EmptyBag
    /\ \E i \in 1..Len(kernel) : "RTA_OIF" \notin kernel[i].present

\* C12: a run() or wait() made while the registration count is 0 leaves the
\* count, the subscription and the cache as they were, and applies none of
\* the notifications pending: no item is received and no resync is made.
C12_UnregisteredNoOp ==
    [][(register_count = Zero32 /\ (Run \/ route_table_wait))
       => /\ register_count' = register_count
          /\ rtn' = rtn
          /\ route_map' = route_map
          /\ last'.item = NoItem
          /\ last'.nresets = 0]_vars

\* run() has been called with notifications pending while no caller is
\* registered and the kernel's table holds routes.
C12_Witness ==
    /\ last.op = "run"
    /\ last.nitems > 0
    /\ register_count = Zero32
    /\ balance = 0
    /\ kernel # <<>>

\* C13: a resync made when the dump socket cannot be created returns an
\* error and leaves the cache as it was before the resync started.
C13_FailedResync ==
    (LostApplied /\ ~sock_ok)
    => /\ route_table_reset(last.before).error # 0
       /\ route_map = last.before

\* C14: a register() made while the count is not 0 increments the count and
\* does nothing else: the subscription and the cache are as they were and no
\* resync is made, whatever the kernel's table has become.
C14_RegisterAgain ==
    [][(register_count # Zero32 /\ route_table_register)
       => /\ register_count' = Inc(register_count)
          /\ rtn' = rtn
          /\ route_map' = route_map
          /\ last'.nresets = 0]_vars

\* A second register() has been made while the cache differs from what a
\* resync would fetch from the kernel's table.
C14_Witness ==
    /\ last.op = "register"
    /\ balance = 2
    /\ rtn # NULL
    /\ sock_ok
    /\ route_map # SetToBag(DumpedRoutes(nl_dump(kernel)))

\* C18: after any sequence of register() and unregister() calls, one made
\* at count 0 included, the count is 0 exactly when there is no subscription,
\* and a register() that no unregister() has followed has left a
\* subscription.
C18_CountIffSubscribed ==
    /\ register_count = Zero32 <=> rtn = NULL
    /\ last.op = "register" => rtn # NULL

\* C19: whenever the count is 0 or there is no subscription the cache is
\* empty, whatever run(), wait() and resolve calls are made meanwhile; and
\* the register() that sets up starts from an empty cache and leaves only
\* route_data of relevant routes of the kernel's present table.
C19_EmptyWhenUnregistered ==
    /\ (register_count = Zero32 \/ rtn = NULL) => route_map = EmptyBag
    /\ (last.op = "register" /\ last.nresets > 0)
       => /\ last.before = EmptyBag
          /\ \A rd \in BagToSet(route_map) : rd \in DumpedRoutes(nl_dump(kernel))

\* The last unregister() has cleared a cache that held routes.
C19_Witness ==
    /\ last.op = "unregister"
    /\ register_count = Zero32
    /\ last.before # EmptyBag
    /\ route_map = EmptyBag

(***************************************************************************)
(* Properties of the delivery order (checked under SpecOrder).             *)
(***************************************************************************)
\* The set of route_data left by applying the items of batch to cache one by
\* one, in order: a relevant RTM_NEWROUTE inserts, a relevant RTM_DELROUTE
\* removes, the lost signal replaces the set by the routes of a dump.
RECURSIVE InOrder(_, _)
InOrder(cache, batch) ==
    IF batch = <<>>
    THEN cache
    ELSE LET it == Head(batch)
             p == route_table_parse(it, ZeroMsg)
         IN  InOrder(
                 IF it = LOST
                 THEN DumpedRoutes(nl_dump(kernel))
                 ELSE IF ~(p.parsed /\ p.change.relevant)
                 THEN cache
                 ELSE IF p.change.nlmsg_type = RTM_NEWROUTE
                 THEN cache \cup {p.change.rd}
                 ELSE IF p.change.nlmsg_type = RTM_DELROUTE
                 THEN cache \ {p.change.rd}
                 ELSE cache,
                 Tail(batch))

\* C15: a run() that drains the pending notifications leaves the cache
\* holding, once each, the route_data that applying them one by one in the
\* order of delivery to the cache leaves; so RTM_NEWROUTE of d followed by
\* RTM_DELROUTE of d ends without d and the reverse order ends with d.
C15_DeliveryOrder ==
    [][(last.op = "pending" /\ route_table_run(last.item))
       => route_map' = SetToBag(InOrder(BagToSet(route_map), last.item))]_vars

\* Two notifications have been drained by one run(): RTM_NEWROUTE of a route
\* and then RTM_DELROUTE of it, which ends without the route.
C15_Witness ==
    /\ last.op = "run"
    /\ last.nitems = 2
    /\ last.item = Unicast(RTM_DELROUTE, 8, Net10, 1)
    /\ BagToSet(last.before) = {route_data(8, Net10, 1)}
    /\ route_map = EmptyBag
    /\ kernel = <<>>

(***************************************************************************)
(* Properties of the decoder (checked under SpecParse).                    *)
(***************************************************************************)
\* C10: an AF_INET message that carries RTA_OIF decodes, with relevant false
\* exactly when its scope is RT_SCOPE_NOWHERE or its type is neither
\* RTN_UNICAST nor RTN_LOCAL, and with rta_dst 0 when it carries no RTA_DST.
C10_Relevance ==
    (last.op = "parse" /\ "RTA_OIF" \in last.item.present
       /\ last.item.rtm_family = AF_INET)
    => /\ last.ret
       /\ ~last.change.relevant
          <=> (\/ last.item.rtm_scope = RT_SCOPE_NOWHERE
               \/ last.item.rtm_type \notin {RTN_UNICAST, RTN_LOCAL})
       /\ "RTA_DST" \notin last.item.present => last.change.rd.rta_dst = Zero32

\* A local route without RTA_DST, whose payload bytes are not zero, decoded.
C10_Witness ==
    /\ last.op = "parse"
    /\ last.ret
    /\ last.change.relevant
    /\ last.item.rtm_type = RTN_LOCAL
    /\ "RTA_DST" \notin last.item.present
    /\ last.item.RTA_DST # Zero32

====
